---- MODULE Spec2Model ----
(***************************************************************************)
(* pip-compile-multi: the environment reference graph, the lockfile        *)
(* rewriting of each environment and the Dependency line model.            *)
(*                                                                         *)
(* Text is modelled character by character: a Python str is a sequence of  *)
(* one-character strings, a file is the str of its content.                *)
(***************************************************************************)
EXTENDS Integers, Sequences, FiniteSets, TLC

VARIABLES
    \* ---- Dependency line harness (Dependency.__init__ / serialize) ----
    line,                 \* the text handed to Dependency(line)
    dep,                  \* the parsed Dependency
    out,                  \* dep.serialize()
    redep,                \* Dependency(out)
    \* ---- header harness (split_header / replace_header on one file) ----
    hdr_file,             \* content of the output file
    hdr_text,             \* header_text handed to replace_header
    hdr_old,              \* content of the file before replace_header
    \* ---- OPTIONS ----
    compatible_patterns,  \* OPTIONS['compatible_patterns']
    allow_post,           \* OPTIONS['allow_post']
    py_major,             \* sys.version_info[0] of the interpreter
    \* ---- a run (recompile / verify) ----
    pc,                   \* position of the run
    in_refs,              \* discovered input file -> names its -r lines give
    env_confs,            \* list returned by discover()
    idx,                  \* index of the next conf of the for loop
    pinned_packages,      \* registry: environment -> (package -> version)
    outfile,              \* environment -> content of its output file
    in_sha,               \* environment -> hexdigest of its input file
    invoked,              \* environments pip-compile was run for, in order
    log,                  \* environment -> what its processing read and did
    success,              \* verify(): the success flag
    error,                \* the exception that ended the run, "" if none
    exit_code,            \* exit status of the process, -1 while it runs
    rr_name,              \* recursive_refs harness: the name asked for
    rr_result             \* recursive_refs harness: the result

depVars == <<line, dep, out, redep>>
hdrVars == <<hdr_file, hdr_text, hdr_old>>
optVars == <<compatible_patterns, allow_post, py_major>>
runVars == <<in_refs, env_confs, idx, pinned_packages, outfile, in_sha,
             invoked, log, success, error, exit_code>>
rrVars  == <<rr_name, rr_result>>
vars == <<depVars, hdrVars, optVars, pc, runVars, rrVars>>

(***************************************************************************)
(* Python str helpers                                                      *)
(***************************************************************************)
Max(S) == CHOOSE x \in S : \A y \in S : y <= x

\* characters str.strip() / str.rstrip() remove
IsSpace(c) == c \in {" ", "\t", "\n"}

RECURSIVE LStrip(_)
LStrip(s) == IF s # <<>> /\ IsSpace(Head(s)) THEN LStrip(Tail(s)) ELSE s

RECURSIVE RStrip(_)
RStrip(s) ==
    IF s # <<>> /\ IsSpace(s[Len(s)]) THEN RStrip(SubSeq(s, 1, Len(s) - 1)) ELSE s

Strip(s) == LStrip(RStrip(s))

StartsWith(s, p) == Len(p) <= Len(s) /\ SubSeq(s, 1, Len(p)) = p

RECURSIVE Spaces(_)
Spaces(n) == IF n <= 0 THEN <<>> ELSE <<" ">> \o Spaces(n - 1)

\* str.ljust(width)
LJust(s, width) == s \o Spaces(width - Len(s))

\* str.lower() on the alphabet of the model
Lower(s) == [i \in 1..Len(s) |-> IF s[i] = "P" THEN "p" ELSE s[i]]

\* fnmatch.fnmatch(name, pat) for patterns of literals, ? and *
RECURSIVE FnMatch(_, _)
FnMatch(name, pat) ==
    IF pat = <<>> THEN name = <<>>
    ELSE IF Head(pat) = "*"
         THEN FnMatch(name, Tail(pat))
              \/ (name # <<>> /\ FnMatch(Tail(name), pat))
    ELSE name # <<>>
         /\ (Head(pat) = "?" \/ Head(pat) = Head(name))
         /\ FnMatch(Tail(name), Tail(pat))

(***************************************************************************)
(* Dependency: one line of pip-compile's output                            *)
(***************************************************************************)
COMMENT_JUSTIFICATION == 26

\* `$`: at the end of the string, or just before a newline that ends it.
\* i is the index of the next unread character.
AtEnd(s, i) == i = Len(s) + 1 \/ (i = Len(s) /\ s[i] = "\n")

\* `.*` read from i: index of the first character it does not take
RECURSIVE DotStarEnd(_, _)
DotStarEnd(s, i) ==
    IF i > Len(s) \/ s[i] = "\n" THEN i ELSE DotStarEnd(s, i + 1)

\* ` *` read from i
RECURSIVE SkipSpaces(_, _)
SkipSpaces(s, i) ==
    IF i <= Len(s) /\ s[i] = " " THEN SkipSpaces(s, i + 1) ELSE i

\* ` *(?:(?P<comment>#.*))?$` matches what follows a version ending at j
TailMatch(s, j) ==
    LET k == SkipSpaces(s, j + 1)
    IN  IF k <= Len(s) /\ s[k] = "#" THEN AtEnd(s, DotStarEnd(s, k))
                                     ELSE AtEnd(s, k)

\* last index of the run of [^ ] characters that starts at v
RECURSIVE RunEnd(_, _)
RunEnd(s, v) == IF v <= Len(s) /\ s[v] # " " THEN RunEnd(s, v + 1) ELSE v - 1

\* the ends j of `(?P<version>[^ ]+)` started at v that let the rest match
VersionEnds(s, v) == {j \in v..RunEnd(s, v) : TailMatch(s, j)}

\* the ends i of `(?P<package>.+)` that let the rest match
PackageEnds(s) ==
    {i \in 1..(Len(s) - 2) :
        /\ \A k \in 1..i : s[k] # "\n"
        /\ s[i + 1] = "=" /\ s[i + 2] = "="
        /\ VersionEnds(s, i + 3) # {}}

InvalidDep == [valid |-> FALSE, package |-> <<>>, version |-> <<>>, comment |-> <<>>]

\* the comment group of a match whose ` *` ends at k
CommentAt(l, k) ==
    IF k <= Len(l) /\ l[k] = "#" THEN Strip(SubSeq(l, k, DotStarEnd(l, k) - 1)) ELSE <<>>

\* the groups of the match with the package ending at i, the version at j
DependencyMatch(l, i, j) ==
    [valid   |-> TRUE,
     package |-> SubSeq(l, 1, i),
     version |-> Strip(SubSeq(l, i + 3, j)),
     comment |-> CommentAt(l, SkipSpaces(l, j + 1))]

\* both + are greedy: the longest package, then the longest version
DependencyOf(l, ends) ==
    IF ends = {} THEN InvalidDep
    ELSE DependencyMatch(l, Max(ends), Max(VersionEnds(l, Max(ends) + 3)))

\* Dependency.__init__: RE_DEPENDENCY.match(line)
Dependency(l) == DependencyOf(l, PackageEnds(l))

\* Dependency.without_editable: RE_EDITABLE_FLAG.sub('', line)
without_editable(s) ==
    IF StartsWith(s, <<"-", "e", " ">>) THEN SubSeq(s, 4, Len(s)) ELSE s

\* Dependency.is_compatible
is_compatible(package, patterns) ==
    \E pattern \in patterns : FnMatch(Lower(package), pattern)

\* Dependency.drop_post
PostIndexes(v) == {i \in 1..(Len(v) - 4) : SubSeq(v, i, i + 4) = <<".", "p", "o", "s", "t">>}

drop_post(v) ==
    IF PostIndexes(v) = {} THEN v
    ELSE SubSeq(v, 1, (CHOOSE i \in PostIndexes(v) : \A k \in PostIndexes(v) : i <= k) - 1)

serialize_nopad(d, patterns) ==
    LET equal == IF is_compatible(d.package, patterns) THEN <<"~", "=">>
                                                       ELSE <<"=", "=">>
    IN  RStrip(without_editable(d.package) \o equal \o d.version \o d.comment)

\* Dependency.serialize
serialize(d, patterns) ==
    LET equal == IF is_compatible(d.package, patterns) THEN <<"~", "=">>
                                                       ELSE <<"=", "=">>
        package_version == without_editable(d.package) \o equal \o d.version
                           \o <<" ", " ">>
    IN  RStrip(LJust(package_version, COMMENT_JUSTIFICATION) \o d.comment)

(***************************************************************************)
(* Dependency line harness: parse a line, serialize it, parse it again     *)
(***************************************************************************)
MaxDepLen == 5

DepAlphabet == {"p", "=", " ", "#", "\t"}

RECURSIVE SeqsUpTo(_, _)
SeqsUpTo(S, n) ==
    IF n = 0 THEN {<<>>}
    ELSE LET shorter == SeqsUpTo(S, n - 1)
         IN  shorter \cup {Append(t, c) : t \in {u \in shorter : Len(u) = n - 1}, c \in S}

\* the editable flag, an upper-case first letter, or nothing, in front
DepPrefixes == {<<>>, <<"-", "e", " ">>, <<"P">>}

\* a line read from a file may carry its newline
DepSuffixes == {<<>>, <<"\n">>}

DepLines ==
    {pre \o t \o suf :
        pre \in DepPrefixes, t \in SeqsUpTo(DepAlphabet, MaxDepLen), suf \in DepSuffixes}

\* values of --compatible
PatternSets == {{}, {<<"p", "*">>}}

IdleDep == line = <<>> /\ dep = InvalidDep /\ out = <<>> /\ redep = InvalidDep
IdleHdr == hdr_file = <<>> /\ hdr_text = <<>> /\ hdr_old = <<>>
IdleRun ==
    /\ in_refs = <<>> /\ env_confs = <<>> /\ idx = 0 /\ pinned_packages = <<>>
    /\ outfile = <<>> /\ in_sha = <<>> /\ invoked = <<>> /\ log = <<>>
    /\ success = TRUE /\ error = "" /\ exit_code = -1
IdleRr == rr_name = "" /\ rr_result = [raised |-> FALSE, refs |-> {}]

InitDep ==
    /\ pc = "dep_start"
    /\ line \in DepLines
    /\ dep = InvalidDep /\ out = <<>> /\ redep = InvalidDep
    /\ compatible_patterns \in PatternSets
    /\ allow_post = {} /\ py_major = 3
    /\ IdleHdr /\ IdleRun /\ IdleRr

\* dep = Dependency(line)
DepParse ==
    /\ pc = "dep_start"
    /\ dep' = Dependency(line)
    /\ pc' = "dep_parsed"
    /\ UNCHANGED <<line, out, redep, hdrVars, optVars, runVars, rrVars>>

\* out = dep.serialize(), for a valid dep
DepSerialize ==
    /\ pc = "dep_parsed"
    /\ dep.valid
    /\ out' = serialize(dep, compatible_patterns)
    /\ pc' = "dep_serialized"
    /\ UNCHANGED <<line, dep, redep, hdrVars, optVars, runVars, rrVars>>

\* redep = Dependency(out)
DepReparse ==
    /\ pc = "dep_serialized"
    /\ redep' = Dependency(out)
    /\ pc' = "dep_reparsed"
    /\ UNCHANGED <<line, dep, out, hdrVars, optVars, runVars, rrVars>>

NextDep == DepParse \/ DepSerialize \/ DepReparse

SpecDep == InitDep /\ [][NextDep]_vars

HasSub(s, sub) == \E i \in 1..(Len(s) - Len(sub) + 1) : SubSeq(s, i, i + Len(sub) - 1) = sub

SamePair == redep.valid /\ redep.package = dep.package /\ redep.version = dep.version

\* C10 as stated: parsing the serialization of any valid Dependency gives a
\* valid Dependency with the same (package, version).
C10_AnyDependencyRoundTrips == pc = "dep_reparsed" => SamePair

\* C10, amended: the round trip holds when the package is not compatible
\* (internal), carries no "-e " flag, the version is not empty and holds no
\* "=", and the comment holds no "==".
C10_PlainDependencyRoundTrips ==
    (/\ pc = "dep_reparsed"
     /\ ~is_compatible(dep.package, compatible_patterns)
     /\ ~StartsWith(dep.package, <<"-", "e", " ">>)
     /\ dep.version # <<>>
     /\ ~HasSub(dep.version, <<"=">>)
     /\ ~HasSub(dep.comment, <<"=", "=">>))
    => SamePair

\* a pin with a comment went round
C10_Witness ==
    /\ pc = "dep_reparsed"
    /\ dep.package = <<"P">> /\ dep.version = <<"p">> /\ dep.comment = <<"#">>
    /\ compatible_patterns = {}
    /\ SamePair

(***************************************************************************)
(* Files: lines, header and body                                           *)
(***************************************************************************)
\* `for line in fp`: the lines of a text, each with its newline (the last
\* one may lack it)
RECURSIVE FileLines(_)
FileLines(text) ==
    IF text = <<>> THEN <<>>
    ELSE LET e == DotStarEnd(text, 1)
         IN  IF e > Len(text) THEN <<text>>
             ELSE <<SubSeq(text, 1, e)>> \o FileLines(SubSeq(text, e + 1, Len(text)))

\* fp.writelines(lines)
RECURSIVE JoinLines(_)
JoinLines(lines) == IF lines = <<>> THEN <<>> ELSE Head(lines) \o JoinLines(Tail(lines))

\* body_start of split_header, reading lines from index i on
RECURSIVE BodyStartNoFlag(_)
BodyStartNoFlag(lines) ==
    IF lines = <<>> THEN 0
    ELSE (IF StartsWith(Head(lines), <<"#">>) THEN 1 ELSE 0) + BodyStartNoFlag(Tail(lines))

RECURSIVE BodyStart(_)
BodyStart(lines) ==
    IF lines # <<>> /\ StartsWith(Head(lines), <<"#">>)
    THEN 1 + BodyStart(Tail(lines))
    ELSE 0

\* Environment.split_header(fp)
SplitAt(lines, body_start) ==
    [header |-> SubSeq(lines, 1, body_start),
     body   |-> SubSeq(lines, body_start + 1, Len(lines))]

SplitLines(lines) == SplitAt(lines, BodyStart(lines))

split_header(text) == SplitLines(FileLines(text))

\* Environment.replace_header(header_text): the new content of the file
replace_header(text, header_text) ==
    header_text \o JoinLines(split_header(text).body)

(***************************************************************************)
(* Header harness: replace_header on one file                              *)
(***************************************************************************)
MaxHdrLen == 4

HdrAlphabet == {"#", "p", "\n"}

InitHdr ==
    /\ pc = "hdr_start"
    /\ hdr_file \in SeqsUpTo(HdrAlphabet, MaxHdrLen)
    /\ hdr_text \in SeqsUpTo(HdrAlphabet, MaxHdrLen)
    /\ hdr_old = <<>>
    /\ compatible_patterns = {} /\ allow_post = {} /\ py_major = 3
    /\ IdleDep /\ IdleRun /\ IdleRr

HdrReplace ==
    /\ pc = "hdr_start"
    /\ hdr_old' = hdr_file
    /\ hdr_file' = replace_header(hdr_file, hdr_text)
    /\ pc' = "hdr_replaced"
    /\ UNCHANGED <<hdr_text, depVars, optVars, runVars, rrVars>>

NextHdr == HdrReplace

SpecHdr == InitHdr /\ [][NextHdr]_vars

HeaderRecovered ==
    /\ JoinLines(split_header(hdr_file).header) = hdr_text
    /\ split_header(hdr_file).body = split_header(hdr_old).body

\* every line of the text starts with the comment marker and ends in a newline
CommentLinesOnly(text) ==
    \A i \in 1..Len(FileLines(text)) :
        LET l == FileLines(text)[i]
        IN  StartsWith(l, <<"#">>) /\ l[Len(l)] = "\n"

\* C9 as stated: after replace_header(header_text), split_header gives back
\* header_text as the header and the former body as the body, whatever the
\* file and the header text.
C9_AnyHeaderRoundTrips == pc = "hdr_replaced" => HeaderRecovered

\* C9, amended: the round trip holds for a header text made of complete
\* lines (each ended by a newline) that all start with the comment marker.
C9_CommentHeaderRoundTrips ==
    (pc = "hdr_replaced" /\ CommentLinesOnly(hdr_text)) => HeaderRecovered

\* a comment header replaced the header of a file that had one and a body
C9_Witness ==
    /\ pc = "hdr_replaced"
    /\ hdr_text = <<"#", "p", "\n">>
    /\ hdr_old = <<"#", "\n", "p", "\n">>
    /\ hdr_file = <<"#", "p", "\n", "p", "\n">>
    /\ HeaderRecovered

(***************************************************************************)
(* The reference graph: discover, order_by_refs, recursive_refs            *)
(***************************************************************************)
\* environment names, in sorted() order
AllNames == <<"a", "b", "c", "d", "e">>

Rank(n) == CHOOSE i \in 1..Len(AllNames) : AllNames[i] = n

\* sorted(S) for a set of names
RECURSIVE Sorted(_)
Sorted(S) ==
    IF S = {} THEN <<>>
    ELSE LET m == CHOOSE x \in S : \A y \in S : Rank(x) <= Rank(y)
         IN  <<m>> \o Sorted(S \ {m})

\* toposort(data) of the toposort library, flattened with each batch sorted;
\* data already holds an empty set for every item that is only depended upon
ToposortNoDeps(data) == [raised |-> FALSE, items |-> Sorted(DOMAIN data)]

RECURSIVE ToposortBatches(_)
ToposortBatches(data) ==
    LET ordered == {item \in DOMAIN data : data[item] = {}}
        rest == [item \in DOMAIN data \ ordered |-> data[item] \ ordered]
    IN  IF ordered = {}
        THEN [raised |-> DOMAIN data # {}, items |-> <<>>]   \* CircularDependencyError
        ELSE LET more == ToposortBatches(rest)
             IN  [raised |-> more.raised, items |-> Sorted(ordered) \o more.items]

\* toposort_flatten(topology): self dependencies are ignored, items that
\* appear only as dependencies are added with no dependencies
toposort_flatten(topology) ==
    LET noself == [k \in DOMAIN topology |-> topology[k] \ {k}]
        extra == (UNION {noself[k] : k \in DOMAIN noself}) \ DOMAIN noself
        data == [k \in DOMAIN noself \cup extra |->
                    IF k \in DOMAIN noself THEN noself[k] ELSE {}]
    IN  ToposortBatches(data)

\* the list discover() hands to order_by_refs, as the name -> refs mapping
\* order_by_refs builds from it; the result is the ordered list of confs,
\* raised when toposort raises or by_name[name] is a KeyError
OrderOf(topology, sorted) ==
    IF sorted.raised
    THEN [raised |-> TRUE, error |-> "CircularDependencyError", confs |-> <<>>]
    ELSE IF \E i \in 1..Len(sorted.items) : sorted.items[i] \notin DOMAIN topology
    THEN [raised |-> TRUE, error |-> "KeyError", confs |-> <<>>]
    ELSE [raised |-> FALSE, error |-> "",
          confs |-> [i \in 1..Len(sorted.items) |->
                        [name |-> sorted.items[i], refs |-> topology[sorted.items[i]]]]]

order_by_refs(topology) == OrderOf(topology, toposort_flatten(topology))

\* refs_by_name of recursive_refs
RefsByName(envs) ==
    [n \in {envs[i].name : i \in 1..Len(envs)} |->
        envs[CHOOSE i \in 1..Len(envs) : envs[i].name = n /\
            \A k \in (i + 1)..Len(envs) : envs[k].name # n].refs]

\* the depth at which Python gives up (RecursionError); deeper than any
\* chain of distinct environments the model holds
RecursionLimit == Len(AllNames) + 1

recursive_refs_direct(refs_by_name, name, depth) ==
    IF name \notin DOMAIN refs_by_name THEN [raised |-> TRUE, refs |-> {}]
    ELSE [raised |-> FALSE, refs |-> refs_by_name[name]]

\* recursive_refs(envs, name), depth calls deep; raised on a KeyError of
\* refs_by_name[name] and on a RecursionError
RECURSIVE recursive_refs_at(_, _, _)
recursive_refs_at(refs_by_name, name, depth) ==
    IF depth > RecursionLimit \/ name \notin DOMAIN refs_by_name
    THEN [raised |-> TRUE, refs |-> {}]
    ELSE LET refs == refs_by_name[name]
             indirect == [ref \in refs |-> recursive_refs_at(refs_by_name, ref, depth + 1)]
         IN  IF \E ref \in refs : indirect[ref].raised
             THEN [raised |-> TRUE, refs |-> {}]
             ELSE [raised |-> FALSE,
                   refs |-> refs \cup UNION {indirect[ref].refs : ref \in refs}]

recursive_refs(envs, name) == recursive_refs_at(RefsByName(envs), name, 1)

\* the list of confs discover() builds before ordering it
ConfList(refs) ==
    LET names == Sorted(DOMAIN refs)
    IN  [i \in 1..Len(names) |-> [name |-> names[i], refs |-> refs[names[i]]]]

Discovered(r) ==
    /\ env_confs' = r.confs
    /\ error' = r.error
    /\ pc' = IF r.raised THEN "failed" ELSE "loop"
    /\ exit_code' = IF r.raised THEN 1 ELSE exit_code

\* discover(): the confs in order, or the exception
Discover ==
    /\ pc = "start"
    /\ Discovered(order_by_refs(in_refs))
    /\ idx' = 1
    /\ UNCHANGED <<in_refs, pinned_packages, outfile, in_sha, invoked, log, success,
                   depVars, hdrVars, optVars, rrVars>>

(***************************************************************************)
(* Graph harness: discover() and recursive_refs() on any reference graph   *)
(***************************************************************************)
MaxEnvs == 3

Names == {AllNames[i] : i \in 1..MaxEnvs}

RefGraphs == UNION {[D -> SUBSET Names] : D \in SUBSET Names}

InitRefs ==
    /\ pc = "start"
    /\ in_refs \in RefGraphs
    /\ env_confs = <<>> /\ idx = 0 /\ pinned_packages = <<>>
    /\ outfile = <<>> /\ in_sha = <<>> /\ invoked = <<>> /\ log = <<>>
    /\ success = TRUE /\ error = "" /\ exit_code = -1
    /\ compatible_patterns = {} /\ allow_post = {} /\ py_major = 3
    /\ IdleDep /\ IdleHdr /\ IdleRr

\* recursive_refs(envs, name) for a discovered name
RrCall ==
    /\ rr_name = ""
    /\ \E n \in DOMAIN in_refs :
        /\ rr_name' = n
        /\ rr_result' = recursive_refs(ConfList(in_refs), n)
    /\ UNCHANGED <<pc, runVars, depVars, hdrVars, optVars>>

NextRefs == Discover \/ RrCall

SpecRefs == InitRefs /\ [][NextRefs]_vars

\* the environments reachable from the set S by reference links
RECURSIVE Closure(_, _)
Closure(refs, S) ==
    LET S2 == S \cup UNION {refs[x] : x \in S \cap DOMAIN refs}
    IN  IF S2 = S THEN S ELSE Closure(refs, S2)

\* reachable from n by one or more reference links
Reachable(refs, n) == Closure(refs, refs[n])

\* every reference names a discovered environment
ClosedGraph(refs) == \A n \in DOMAIN refs : refs[n] \subseteq DOMAIN refs

Acyclic(refs) == \A n \in DOMAIN refs : n \notin Reachable(refs, n)

Position(confs, n) == CHOOSE i \in 1..Len(confs) : confs[i].name = n

\* C3: for an acyclic reference graph over the discovered environments the
\* ordered list holds every discovered environment exactly once, each after
\* every environment of its transitive reference set.
C3_OrderRespectsRefs ==
    (pc # "start" /\ ClosedGraph(in_refs) /\ Acyclic(in_refs)) =>
        /\ pc = "loop"
        /\ Len(env_confs) = Cardinality(DOMAIN in_refs)
        /\ {env_confs[i].name : i \in 1..Len(env_confs)} = DOMAIN in_refs
        /\ \A n \in DOMAIN in_refs : \A m \in Reachable(in_refs, n) :
               Position(env_confs, m) < Position(env_confs, n)

\* the chain a <- b <- c, with c also naming a directly, was ordered
C3_Witness ==
    /\ pc = "loop"
    /\ in_refs = [n \in {"a", "b", "c"} |->
                    IF n = "a" THEN {"c", "b"} ELSE IF n = "b" THEN {"c"} ELSE {}]
    /\ env_confs = <<[name |-> "c", refs |-> {}], [name |-> "b", refs |-> {"c"}],
                     [name |-> "a", refs |-> {"b", "c"}]>>

\* C8: for an acyclic reference graph recursive_refs returns exactly the
\* environments reachable by one or more reference links, never the name
\* itself.
C8_RecursiveRefsIsClosure ==
    (rr_name # "" /\ ClosedGraph(in_refs) /\ Acyclic(in_refs)) =>
        /\ ~rr_result.raised
        /\ rr_result.refs = Reachable(in_refs, rr_name)
        /\ rr_name \notin rr_result.refs

\* base <- test <- local: the refs of local are base and test
C8_Witness ==
    /\ rr_name = "c"
    /\ in_refs = [n \in {"a", "b", "c"} |->
                    IF n = "c" THEN {"b"} ELSE IF n = "b" THEN {"a"} ELSE {}]
    /\ rr_result = [raised |-> FALSE, refs |-> {"a", "b"}]

(***************************************************************************)
(* Environment: the rewriting of one lockfile                              *)
(***************************************************************************)
\* Python's None, where a version or a line is expected
None == <<"None">>

\* Environment.PY3_IGNORE
PY3_IGNORE == {<<"f", "u", "t", "u", "r", "e">>, <<"f", "u", "t", "u", "r", "e", "s">>}

\* Environment.OUT_EXT
OUT_EXT == <<".", "t", "x", "t">>

\* the versions the environments `names` registered for package p
RegisteredVersions(env_packages, names, p) ==
    {env_packages[n][p] : n \in {m \in names : p \in DOMAIN env_packages[m]}}

merged_packages_common(env_packages, names) ==
    LET pkgs == {p \in UNION {DOMAIN env_packages[n] : n \in names} :
                    \A n \in names : p \in DOMAIN env_packages[n]}
        versions == UNION {RegisteredVersions(env_packages, names, p) : p \in pkgs}
    IN  {f \in [pkgs -> versions] :
            \A p \in pkgs : f[p] \in RegisteredVersions(env_packages, names, p)}

\* merged_packages(env_packages, names): the union of the package mappings
\* of the environments `names`; where they disagree on a version the union
\* keeps one of them. Every mapping the union can be.
merged_packages(env_packages, names) ==
    LET pkgs == UNION {DOMAIN env_packages[n] : n \in names}
        versions == UNION {RegisteredVersions(env_packages, names, p) : p \in pkgs}
    IN  {f \in [pkgs -> versions] :
            \A p \in pkgs : f[p] \in RegisteredVersions(env_packages, names, p)}

\* the names Environment.__init__ adds to the ignore set
VersionIgnore == IF py_major >= 3 THEN PY3_IGNORE ELSE {}

\* Environment.__init__: self.ignore, with PY3_IGNORE added under Python 3
\* (no version recorded for those)
EnvIgnore(merged) ==
    [p \in DOMAIN merged \cup VersionIgnore |-> IF p \in DOMAIN merged THEN merged[p] ELSE None]

\* the post-release policy of fix_pin / drop_post(in_path)
DropsPost(package, name) == name \notin allow_post \/ is_compatible(package, compatible_patterns)

\* self.packages[dep.package] = dep.version
WithPackage(packages, package, version) ==
    [p \in DOMAIN packages \cup {package} |-> IF p = package THEN version ELSE packages[p]]

\* dep.drop_post(in_path); dep.serialize()
DropPostAndSerialize(d, name) ==
    serialize([d EXCEPT !.version = IF DropsPost(d.package, name) THEN drop_post(@) ELSE @],
              compatible_patterns)

\* the conflict test of fix_pin, for a package of the ignore mapping
Conflicts(d, ignore) ==
    ignore[d.package] # None /\ d.version # <<>> /\ d.version # ignore[d.package]

FixDepNoConflict(d, l, ignore, packages, name) ==
    IF d.valid
    THEN IF d.package \in DOMAIN ignore
         THEN [raised |-> FALSE, line |-> None, packages |-> packages]
         ELSE [raised |-> FALSE, line |-> DropPostAndSerialize(d, name),
               packages |-> WithPackage(packages, d.package, d.version)]
    ELSE [raised |-> FALSE, line |-> Strip(l), packages |-> packages]

\* the body of fix_pin for dep = Dependency(line): the line to write (None
\* to drop it), the packages of the environment after it, raised on a
\* version conflict
FixDep(d, l, ignore, packages, name) ==
    IF d.valid
    THEN IF d.package \in DOMAIN ignore
         THEN [raised |-> Conflicts(d, ignore), line |-> None, packages |-> packages]
         ELSE [raised |-> FALSE, line |-> DropPostAndSerialize(d, name),
               packages |-> WithPackage(packages, d.package, d.version)]
    ELSE [raised |-> FALSE, line |-> Strip(l), packages |-> packages]

\* Environment.fix_pin(line)
fix_pin(l, ignore, packages, name) == FixDep(Dependency(l), l, ignore, packages, name)

\* ' '.join(line_parts)
RECURSIVE JoinParts(_)
JoinParts(parts) ==
    IF Len(parts) = 1 THEN Head(parts)
    ELSE Head(parts) \o <<" ">> \o JoinParts(Tail(parts))

\* a logical line put in front of the ones that follow
WithLine(l, rest) == [raised |-> rest.raised, lines |-> <<l>> \o rest.lines]

\* Environment.concatenated(fp): the logical lines, and whether the file
\* ends inside a continuation (RuntimeError after the last line)
RECURSIVE concatenated_from(_, _)
ConcatenateLine(l, lines, line_parts) ==
    IF l # <<>> /\ l[Len(l)] = "\\"
    THEN concatenated_from(lines, Append(line_parts, RStrip(SubSeq(l, 1, Len(l) - 1))))
    ELSE WithLine(JoinParts(Append(line_parts, l)), concatenated_from(lines, <<>>))

concatenated_from(lines, line_parts) ==
    IF lines = <<>> THEN [raised |-> line_parts # <<>>, lines |-> <<>>]
    ELSE ConcatenateLine(Strip(Head(lines)), Tail(lines), line_parts)

concatenated(text) == concatenated_from(FileLines(text), <<>>)

\* `line + '\n'` for the lines that are not None
Written(l) == IF l = None THEN <<>> ELSE <<l \o <<"\n">> >>

WithFixed(l, rest) ==
    [raised |-> rest.raised, lines |-> Written(l) \o rest.lines, packages |-> rest.packages]

\* the list comprehension of fix_lockfile: fix_pin over the lines in order
RECURSIVE FixLines(_, _, _, _)
FixRest(first, lines, ignore, name) ==
    IF first.raised THEN [raised |-> TRUE, lines |-> <<>>, packages |-> first.packages]
    ELSE WithFixed(first.line, FixLines(lines, ignore, first.packages, name))

FixLines(lines, ignore, packages, name) ==
    IF lines = <<>> THEN [raised |-> FALSE, lines |-> <<>>, packages |-> packages]
    ELSE FixRest(fix_pin(Head(lines), ignore, packages, name), Tail(lines), ignore, name)

\* what fix_lockfile does with the file `text`, given the fixed lines
FixLockfileResult(text, unfinished, fixed) ==
    IF fixed.raised
    THEN [raised |-> TRUE, error |-> "RuntimeError: version conflict",
          text |-> text, packages |-> <<>>]
    ELSE IF unfinished
    THEN [raised |-> TRUE, error |-> "RuntimeError: ends with backslash",
          text |-> text, packages |-> <<>>]
    ELSE [raised |-> FALSE, error |-> "",
          text |-> JoinLines(fixed.lines), packages |-> fixed.packages]

FixLogical(text, logical, ignore, name) ==
    FixLockfileResult(text, logical.raised, FixLines(logical.lines, ignore, <<>>, name))

\* Environment.fix_lockfile(): rewrites the file `text` and registers the
\* packages; on an exception nothing is written and nothing registered
fix_lockfile(text, ignore, name) == FixLogical(text, concatenated(text), ignore, name)

\* the '-r <name>.txt' lines add_references writes
RECURSIVE RefLines(_)
RefLines(names) ==
    IF names = <<>> THEN <<>>
    ELSE <<"-", "r", " ", Head(names)>> \o OUT_EXT \o <<"\n">> \o RefLines(Tail(names))

\* Environment.add_references(other_names): the new content of the file
WithReferences(parts, other_names) ==
    JoinLines(parts.header) \o RefLines(Sorted(other_names)) \o JoinLines(parts.body)

add_references(text, other_names) ==
    IF other_names = {} THEN text ELSE WithReferences(split_header(text), other_names)

\* DEFAULT_HEADER, cut to its first line
DEFAULT_HEADER == <<"#", "\n">>

SHA1_PREFIX == <<"#", " ", "S", "H", "A", "1", ":">>

\* generate_hash_comment(file_path), for the hexdigest of the file
generate_hash_comment(hexdigest) == SHA1_PREFIX \o <<hexdigest>> \o <<"\n">>

\* parse_hash_comment(file_path): the first line that starts with "# SHA1:"
parse_hash_comment(text) ==
    LET lines == FileLines(text)
        hits == {i \in 1..Len(lines) : StartsWith(lines[i], SHA1_PREFIX)}
    IN  IF hits = {} THEN None
        ELSE lines[CHOOSE i \in hits : \A k \in hits : i <= k]

(***************************************************************************)
(* recompile(): one environment after the other, in the discovered order   *)
(***************************************************************************)
\* what the log holds for an environment not processed yet
NoLog == [status |-> "none", affected |-> FALSE, ignore |-> <<>>, read |-> <<>>,
          fixed |-> <<>>, returned |-> "none", written |-> <<>>]

\* base_header_text of recompile(), without a header file
base_header_text == DEFAULT_HEADER

\* the conf the for loop of recompile() is at
Conf == env_confs[idx]

InLoop == pc = "loop" /\ idx <= Len(env_confs)

\* rrefs of recompile()
Rrefs == recursive_refs(env_confs, Conf.name)

\* the ignore mappings Environment.__init__ can get for the conf
Ignores == {EnvIgnore(merged) : merged \in merged_packages(pinned_packages, Rrefs.refs)}

Abort(exception) ==
    /\ pc' = "failed"
    /\ error' = exception
    /\ exit_code' = 1

\* recursive_refs never returns for an environment that reaches itself
EnvRecursionError ==
    /\ InLoop
    /\ Rrefs.raised
    /\ Abort("RecursionError")
    /\ UNCHANGED <<in_refs, env_confs, idx, pinned_packages, outfile, in_sha, invoked,
                   log, success, depVars, hdrVars, optVars, rrVars>>

Register(name, packages) ==
    pinned_packages' = WithPackage(pinned_packages, name, packages)

\* how an iteration ends once fix_lockfile() is through: with its exception,
\* or with the packages registered and the loop at the next conf
Fixed(name, r, entry) ==
    /\ log' = [log EXCEPT ![name] = entry]
    /\ outfile' = [outfile EXCEPT ![name] = entry.written]
    /\ IF r.raised
       THEN Abort(r.error) /\ UNCHANGED <<pinned_packages, idx>>
       ELSE Register(name, r.packages) /\ idx' = idx + 1 /\ UNCHANGED <<pc, error, exit_code>>

Outcome(r, returned) == IF r.raised THEN "raised" ELSE returned

Status(r) == IF r.raised THEN "raised" ELSE "ok"

UnaffectedStep(name, ignore, r) ==
    Fixed(name, r,
          [status |-> Status(r), affected |-> FALSE, ignore |-> ignore,
           read |-> outfile[name], fixed |-> r.text, returned |-> Outcome(r, "false"),
           written |-> r.text])

\* maybe_create_lockfile() of an environment FEATURES.affected() reports as
\* unaffected: fix_lockfile() on the lockfile that is there, no pip-compile
EnvUnaffected ==
    /\ InLoop
    /\ ~Rrefs.raised
    /\ \E ignore \in Ignores :
        UnaffectedStep(Conf.name, ignore, fix_lockfile(outfile[Conf.name], ignore, Conf.name))
    /\ UNCHANGED <<in_refs, env_confs, in_sha, invoked, success,
                   depVars, hdrVars, optVars, rrVars>>

\* the texts pip-compile writes to the output file in the model
ResolverOutputs ==
    { <<"p", "=", "=", "1", "\n">>,
      <<"p", "=", "=", "2", "\n">>,
      <<"-", "e", " ", "p", "=", "=", "1", "\n", "p", "=", "=", "1", "\n">>,
      <<"p", "=", "=", "\t", " ", "#", "\n">>,
      <<"#", " ", "c", "\n", "q", "=", "=", "1", ".", "p", "o", "s", "t", "2", "\n">>,
      <<"f", "u", "t", "u", "r", "e", "=", "=", "1", "\n">>,
      <<"q", "=", "=", "1", " ", "\\", "\n", "#", "c", "\n">>,
      <<"q", "=", "=", "1", " ", "\\", "\n">> }

FailedEntry(ignore, left) ==
    [status |-> "resolver_failed", affected |-> TRUE, ignore |-> ignore,
     read |-> <<>>, fixed |-> left, returned |-> "raised", written |-> left]

ResolverFailedStepIgnoresStatus(name, ignore, left) ==
    /\ invoked' = Append(invoked, name)
    /\ outfile' = [outfile EXCEPT ![name] = fix_lockfile(left, ignore, name).text]
    /\ log' = [log EXCEPT ![name] = FailedEntry(ignore, left)]
    /\ Register(name, fix_lockfile(left, ignore, name).packages)
    /\ idx' = idx + 1
    /\ UNCHANGED <<pc, error, exit_code>>

\* the else branch of create_lockfile(): no fix_lockfile(), RuntimeError
ResolverFailedStep(name, ignore, left) ==
    /\ invoked' = Append(invoked, name)
    /\ outfile' = [outfile EXCEPT ![name] = left]
    /\ log' = [log EXCEPT ![name] = FailedEntry(ignore, left)]
    /\ Abort("RuntimeError: Failed to pip-compile")
    /\ UNCHANGED <<pinned_packages, idx>>

\* create_lockfile(): pip-compile exits with a non-zero status. What it left
\* in the output file, if anything, stays as it is.
EnvResolverFailed ==
    /\ InLoop
    /\ ~Rrefs.raised
    /\ \E ignore \in Ignores, left \in {outfile[Conf.name]} \cup ResolverOutputs :
        ResolverFailedStep(Conf.name, ignore, left)
    /\ UNCHANGED <<in_refs, env_confs, in_sha, success, depVars, hdrVars, optVars, rrVars>>

\* header_text of recompile()
HeaderText(name) == generate_hash_comment(in_sha[name]) \o base_header_text

\* env.replace_header(header_text); env.add_references(conf['refs'])
Munged(text, name, refs) == add_references(replace_header(text, HeaderText(name)), refs)

CompiledStep(name, refs, ignore, resolved, r) ==
    /\ invoked' = Append(invoked, name)
    /\ Fixed(name, r,
             [status |-> Status(r), affected |-> TRUE, ignore |-> ignore,
              read |-> resolved, fixed |-> r.text, returned |-> Outcome(r, "true"),
              written |-> IF r.raised THEN resolved ELSE Munged(r.text, name, refs)])

\* create_lockfile(): pip-compile exits with 0 and fix_lockfile() rewrites
\* its output; then recompile() replaces the header and adds the references
EnvCompiled ==
    /\ InLoop
    /\ ~Rrefs.raised
    /\ \E ignore \in Ignores, resolved \in ResolverOutputs :
        CompiledStep(Conf.name, Conf.refs, ignore, resolved,
                     fix_lockfile(resolved, ignore, Conf.name))
    /\ UNCHANGED <<in_refs, env_confs, in_sha, success, depVars, hdrVars, optVars, rrVars>>

\* the for loop of recompile() is over
RecompileDone ==
    /\ pc = "loop" /\ idx > Len(env_confs)
    /\ pc' = "done"
    /\ exit_code' = 0
    /\ UNCHANGED <<in_refs, env_confs, idx, pinned_packages, outfile, in_sha, invoked,
                   log, success, error, depVars, hdrVars, optVars, rrVars>>

\* the environments of a run
RunNames == {"a", "b", "c"}

RunGraphs == UNION {[D -> SUBSET RunNames] : D \in SUBSET RunNames}

\* lockfiles an earlier run left: a pin, a pin of another version, and the
\* compatible pin of an internal package
ExistingFiles ==
    { SHA1_PREFIX \o <<"0", "\n", "#", "\n", "p", "=", "=", "1", "\n">>,
      <<"#", "\n", "p", "=", "=", "2", "\n">>,
      SHA1_PREFIX \o <<"0", "\n", "#", "\n", "q", "~", "=", "1", "\n">> }

InitRun(files) ==
    /\ pc = "start"
    /\ in_refs \in RunGraphs
    /\ outfile \in [DOMAIN in_refs -> files]
    /\ in_sha = [n \in DOMAIN in_refs |-> "0"]
    /\ log = [n \in DOMAIN in_refs |-> [NoLog EXCEPT !.written = outfile[n]]]
    /\ env_confs = <<>> /\ idx = 0 /\ pinned_packages = <<>> /\ invoked = <<>>
    /\ success = TRUE /\ error = "" /\ exit_code = -1
    /\ compatible_patterns = {<<"q", "*">>}
    /\ allow_post = {"b", "c"}
    /\ py_major \in {2, 3}
    /\ IdleDep /\ IdleHdr /\ IdleRr

Init == InitRun(ExistingFiles)

Next ==
    \/ Discover
    \/ EnvRecursionError
    \/ EnvUnaffected
    \/ EnvResolverFailed
    \/ EnvCompiled
    \/ RecompileDone

Spec == Init /\ [][Next]_vars

(***************************************************************************)
(* Claims about a run of recompile()                                       *)
(***************************************************************************)
\* fix_lockfile() ran for n (to its end, or to its exception)
FixRan(n) == log[n].status \in {"ok", "raised"}

\* the logical lines fix_lockfile() handed to fix_pin for n
LogicalLines(n) == concatenated(log[n].read).lines

\* the valid pins among them
PinsRead(n) ==
    {d \in {Dependency(LogicalLines(n)[i]) : i \in 1..Len(LogicalLines(n))} : d.valid}

\* a pin of a package the ignore mapping of n records another version for
Disagrees(n, d) ==
    /\ d.package \in DOMAIN log[n].ignore
    /\ log[n].ignore[d.package] # None
    /\ d.version # log[n].ignore[d.package]

ConflictRaised(n) ==
    /\ log[n].status = "raised"
    /\ pc = "failed"
    /\ error = "RuntimeError: version conflict"

NamesPackage(l, p) ==
    StartsWith(l, p \o <<"=", "=">>) \/ StartsWith(l, p \o <<"~", "=">>)

\* C2: a package of the ignore mapping that the environment's input pins to
\* the recorded version (or whose recorded version is None) has no line in
\* the rewritten output and is not among the environment's own packages.
C2_IgnoredPackageNotRepinned ==
    \A n \in DOMAIN log :
        log[n].status = "ok" =>
            \A d \in PinsRead(n) :
                (/\ d.package \in DOMAIN log[n].ignore
                 /\ (log[n].ignore[d.package] = None
                        \/ d.version = log[n].ignore[d.package]))
                => /\ d.package \notin DOMAIN pinned_packages[n]
                   /\ \A i \in 1..Len(FileLines(outfile[n])) :
                        ~NamesPackage(FileLines(outfile[n])[i], d.package)

\* C4: when the reference graph has a cycle, pip-compile is run for no
\* environment, no output file is touched and the run does not complete.
C4_CycleAbortsBeforeResolver ==
    ~Acyclic(in_refs) =>
        /\ invoked = <<>>
        /\ \A n \in DOMAIN log : log[n].status = "none" /\ outfile[n] = log[n].written
        /\ pc # "done"

\* the packages the lockfile text holds a pin for
KnownPackages == {<<"p">>, <<"q">>} \cup PY3_IGNORE

PinsOf(text) ==
    {p \in KnownPackages : \E i \in 1..Len(FileLines(text)) : NamesPackage(FileLines(text)[i], p)}

WasInvoked(n) == \E i \in 1..Len(invoked) : invoked[i] = n

\* C5: for an environment processed as unaffected, pip-compile is not run,
\* maybe_create_lockfile returns False, and every package its lockfile pins
\* is registered (by it or already by an ancestor), so that every descendant
\* processed later has it in its ignore mapping.
C5_UnaffectedRegistersPins ==
    \A n \in DOMAIN log :
        (log[n].status = "ok" /\ ~log[n].affected) =>
            /\ ~WasInvoked(n)
            /\ log[n].returned = "false"
            /\ \A p \in PinsOf(log[n].read) :
                /\ p \in DOMAIN pinned_packages[n] \cup DOMAIN log[n].ignore
                /\ \A m \in DOMAIN log :
                    (log[m].status # "none" /\ n \in Reachable(in_refs, m))
                        => p \in DOMAIN log[m].ignore

\* C6: when pip-compile exits with a non-zero status for an environment the
\* run is over: the file is as pip-compile left it, the environment is not
\* registered, no later environment is processed and every other output
\* file is as it was.
C6_ResolverFailureAborts ==
    \A n \in DOMAIN log :
        log[n].status = "resolver_failed" =>
            /\ pc = "failed" /\ exit_code = 1
            /\ error = "RuntimeError: Failed to pip-compile"
            /\ env_confs[idx].name = n
            /\ n \notin DOMAIN pinned_packages
            /\ outfile[n] = log[n].fixed
            /\ \A m \in DOMAIN log \ {n} :
                /\ outfile[m] = log[m].written
                /\ Position(env_confs, m) > idx => (log[m].status = "none" /\ ~WasInvoked(m))

\* pip-compile failed for the second of three environments
C6_Witness ==
    /\ Len(env_confs) = 3 /\ idx = 2
    /\ log[env_confs[1].name].status = "ok"
    /\ log[env_confs[2].name].status = "resolver_failed"
    /\ log[env_confs[2].name].fixed \in ResolverOutputs
    /\ pc = "failed"

(***************************************************************************)
(* verify(): the hash comment of every environment against its input       *)
(***************************************************************************)
\* lockfiles with the hash comment of the input, with the one of another
\* input, and with none
VerifyFiles ==
    { SHA1_PREFIX \o <<"0", "\n", "#", "\n", "p", "=", "=", "1", "\n">>,
      SHA1_PREFIX \o <<"1", "\n", "#", "\n", "p", "=", "=", "1", "\n">>,
      <<"#", "\n", "p", "=", "=", "2", "\n">> }

InitVerify == InitRun(VerifyFiles)

\* current_comment and existing_comment of verify()
current_comment == generate_hash_comment(in_sha[Conf.name])

existing_comment == parse_hash_comment(outfile[Conf.name])

Verified(status) ==
    /\ log' = [log EXCEPT ![Conf.name].status = status]
    /\ UNCHANGED <<in_refs, env_confs, pinned_packages, outfile, in_sha, invoked,
                   depVars, hdrVars, optVars, rrVars>>

\* the comments match
VerifyMatch ==
    /\ InLoop
    /\ current_comment = existing_comment
    /\ Verified("match")
    /\ idx' = idx + 1
    /\ UNCHANGED <<success, pc, error, exit_code>>

\* another hash comment: FAILURE! is logged and the loop goes on
VerifyMismatch ==
    /\ InLoop
    /\ current_comment # existing_comment
    /\ existing_comment # None
    /\ Verified("mismatch")
    /\ success' = FALSE
    /\ idx' = idx + 1
    /\ UNCHANGED <<pc, error, exit_code>>

\* no hash comment: existing_comment is None, and None has no strip()
VerifyNoComment ==
    /\ InLoop
    /\ current_comment # existing_comment
    /\ existing_comment = None
    /\ Verified("no_comment")
    /\ Abort("AttributeError")
    /\ UNCHANGED <<success, idx>>

\* after the loop: ctx.exit(1) if not success
VerifyExit ==
    /\ pc = "loop" /\ idx > Len(env_confs)
    /\ pc' = "done"
    /\ exit_code' = IF success THEN 0 ELSE 1
    /\ UNCHANGED <<in_refs, env_confs, idx, pinned_packages, outfile, in_sha, invoked,
                   log, success, error, depVars, hdrVars, optVars, rrVars>>

NextVerify ==
    \/ Discover
    \/ VerifyMatch
    \/ VerifyMismatch
    \/ VerifyNoComment
    \/ VerifyExit

SpecVerify == InitVerify /\ [][NextVerify]_vars

\* the run is over and discover() had returned every environment
VerifyOver ==
    /\ pc \in {"done", "failed"}
    /\ Len(env_confs) = Cardinality(DOMAIN in_refs)

\* the hash of the input is not what the output file records
Differs(n) == generate_hash_comment(in_sha[n]) # parse_hash_comment(outfile[n])

\* C7: when verify() is over every environment has been checked, and the
\* exit status is 1 exactly when the hash comment of some environment
\* differs from the hash of its input (or is missing).
C7_VerifyChecksEveryEnvironment ==
    VerifyOver =>
        /\ \A n \in DOMAIN log : log[n].status # "none"
        /\ (exit_code = 1) <=> (\E n \in DOMAIN in_refs : Differs(n))

(***************************************************************************)
(* The unaffected path and the ignore set                                  *)
(***************************************************************************)
\* C11: for an environment processed as unaffected, the output file after
\* maybe_create_lockfile is byte-identical to the one it read.
C11_UnaffectedLeavesFile ==
    \A n \in DOMAIN log :
        (FixRan(n) /\ ~log[n].affected) => outfile[n] = log[n].read

\* an Environment was constructed for n
Constructed(n) == log[n].status \in {"ok", "raised", "resolver_failed"}

\* the packages registered for the transitive reference set of n
AncestorPackages(n) ==
    UNION {DOMAIN pinned_packages[m] : m \in Reachable(in_refs, n) \cap DOMAIN pinned_packages}

\* C12 as stated: the ignore set of an environment is exactly the union of
\* the packages registered for its transitive reference set.
C12_IgnoreIsUnion ==
    \A n \in DOMAIN log :
        Constructed(n) => DOMAIN log[n].ignore = AncestorPackages(n)

\* C12, amended: the ignore set is that union together with, under
\* Python 3, the names of PY3_IGNORE.
C12_IgnoreIsUnionAndPy3Ignore ==
    \A n \in DOMAIN log :
        Constructed(n) =>
            DOMAIN log[n].ignore =
                AncestorPackages(n) \cup (IF py_major >= 3 THEN PY3_IGNORE ELSE {})

\* an environment whose two ancestors registered different packages got
\* both of them, and future and futures, in its ignore set
C12_Witness ==
    \E n \in DOMAIN log :
        /\ log[n].status = "ok"
        /\ py_major = 3
        /\ \E a, b \in Reachable(in_refs, n) :
            /\ DOMAIN pinned_packages[a] = {<<"p">>}
            /\ DOMAIN pinned_packages[b] = {<<"q">>}
        /\ DOMAIN log[n].ignore = {<<"p">>, <<"q">>} \cup PY3_IGNORE

====
